---- MODULE Spec2Model ----
(***************************************************************************)
(* Model of the Gainsight Customer Communities access layer:               *)
(* GainsightClient (src/src/client.py) and the module-level client of      *)
(* src/src/server.py.  A client is constructed from a region and           *)
(* credentials, caches one OAuth2 bearer token, and every operation runs   *)
(* _request: _ensure_token, then one HTTP request with the bearer header.  *)
(* Operations are coroutines on one event loop: they interleave only at    *)
(* the two awaits (the token POST and the resource request).               *)
(***************************************************************************)
EXTENDS Integers, Sequences, FiniteSets, Bags, TLC

(* ---------------------------------------------------------------------- *)
(* Bounds of the model                                                     *)
(* ---------------------------------------------------------------------- *)
MaxInFlight == 2     \* operations that may be in flight on the client at once
MaxTicks == 1        \* clock advances in one behaviour
StartTime == 1       \* time.time() when the process starts (seconds)
MaxSupplied == 2     \* optional arguments a tool is called with at once

(* ---------------------------------------------------------------------- *)
(* Program constants                                                       *)
(* ---------------------------------------------------------------------- *)
DefaultExpiresIn == 3600   \* data.get("expires_in", 3600)
RefreshMargin == 60        \* "Refresh 60 s before actual expiry"

NONE == "<None>"           \* Python None / JSON null / an unset variable

\* REGION_BASE_URLS, in the dict's insertion order
RegionKeys == <<"eu-west-1", "us-west-2">>

\* mutant: every region key is bound to the default region's endpoint
RegionBaseUrlsDefaultOnly(r) ==
    CASE r = "eu-west-1" -> "https://api2-eu-west-1.insided.com"
      [] r = "us-west-2" -> "https://api2-eu-west-1.insided.com"

REGION_BASE_URLS(r) ==
    CASE r = "eu-west-1" -> "https://api2-eu-west-1.insided.com"
      [] r = "us-west-2" -> "https://api2-us-west-2.insided.com"

TOKEN_PATH == "/oauth2/token"

InRegionBaseUrls(r) == \E i \in 1..Len(RegionKeys) : RegionKeys[i] = r

\* Python truthiness of an optional string: None and "" are falsy
Truthy(s) == s # NONE /\ s # ""

\* x or y
PyOr(x, y) == IF Truthy(x) THEN x ELSE y

\* os.environ.get(name, default): the default only when the variable is unset
EnvGet(env, default) == IF env = NONE THEN default ELSE env

\* str(x) as used by the f-strings
Str(x) == IF x = NONE THEN "None" ELSE x

(* ---------------------------------------------------------------------- *)
(* Inputs                                                                  *)
(* ---------------------------------------------------------------------- *)
RegionArgs == {NONE, "", "eu-west-1", "us-west-2", "ap-southeast-1"}
EnvRegions == {NONE, "", "eu-west-1", "us-west-2", "ap-southeast-1"}
CredArgs == {NONE, "test-id"}
EnvCreds == {NONE, "env-id"}

Tokens == {"tok-A", "tok-B"}
Deltas == {3539, 3540}

\* the expires_in member of a token body: absent, a number, or not a number
ExpiresInFields ==
    {[kind |-> "absent", val |-> 0], [kind |-> "other", val |-> 0]}
    \cup {[kind |-> "number", val |-> v] : v \in {60, 61, 3600}}

\* the access_token member: absent, null or a token
AccessTokenFields ==
    {[present |-> FALSE, val |-> NONE]}
    \cup {[present |-> TRUE, val |-> v] : v \in Tokens \cup {NONE}}

NoBody == [json |-> FALSE,
           access_token |-> [present |-> FALSE, val |-> NONE],
           expires_in |-> [kind |-> "absent", val |-> 0]]

\* a body without access_token raises whatever its expires_in is: one suffices
TokenBodies ==
    {NoBody} \cup
    {b \in [json : {TRUE}, access_token : AccessTokenFields,
            expires_in : ExpiresInFields] :
        b.access_token.present \/ b.expires_in.kind = "absent"}

\* what the await on the token POST can resume with
TokenResponses ==
    {[transport |-> TRUE, status |-> 0, body |-> NoBody]}
    \cup {[transport |-> FALSE, status |-> s, body |-> NoBody] : s \in {401, 500}}
    \cup {[transport |-> FALSE, status |-> 200, body |-> b] : b \in TokenBodies}

\* what the await on the resource request can resume with
ResourceResponses ==
    {[transport |-> TRUE, status |-> 0, json |-> FALSE]}
    \cup {[transport |-> FALSE, status |-> s, json |-> FALSE] : s \in {404, 500}}
    \cup {[transport |-> FALSE, status |-> 200, json |-> j] : j \in BOOLEAN}

(* ---------------------------------------------------------------------- *)
(* State                                                                   *)
(* ---------------------------------------------------------------------- *)
VARIABLES
    constructed,        \* server._client is not None
    region,             \* self.region
    base_url,           \* self.base_url
    access_token,       \* self._access_token
    token_expires_at,   \* self._token_expires_at
    call,               \* the GainsightClient(...) call being made, if any
    ctor,               \* outcome of the latest GainsightClient(...) call
    now,                \* time.time()
    ticks,              \* clock advances so far
    ops,                \* the operations in flight: a bag of coroutine frames
    stored,             \* history of the cached pair: which response wrote it
    last,               \* the latest resumption of an operation, and its outcome
    tool,               \* the caller awaiting a client method: a tool's frame
    reply               \* what the latest caller returned or raised

vars == <<constructed, region, base_url, access_token, token_expires_at, call, ctor,
          now, ticks, ops, stored, last, tool, reply>>

clientVars == <<constructed, region, base_url, call, ctor>>
cacheVars == <<access_token, token_expires_at>>
toolVars == <<tool, reply>>


(* ---------------------------------------------------------------------- *)
(* GainsightClient.__init__                                                *)
(* ---------------------------------------------------------------------- *)
\* the ValueError of an unknown region: the value and ', '.join(REGION_BASE_URLS)
UnknownRegion(r) ==
    [region |-> NONE, base_url |-> NONE,
     error |-> "ValueError", names |-> r, supported |-> RegionKeys]

\* os.environ["GS_CC_CLIENT_ID"] / ["GS_CC_CLIENT_SECRET"] of an unset variable
MissingEnv(name) ==
    [region |-> NONE, base_url |-> NONE,
     error |-> "KeyError", names |-> name, supported |-> <<>>]

\* mutant: region or os.environ.get("GS_CC_REGION") or "eu-west-1"
ResolveRegionOrDefault(regionArg, envRegion) ==
    PyOr(regionArg, PyOr(envRegion, "eu-west-1"))

\* self.region = region or os.environ.get("GS_CC_REGION", "eu-west-1")
ResolveRegion(regionArg, envRegion) ==
    PyOr(regionArg, EnvGet(envRegion, "eu-west-1"))

\* The constructor, statement by statement: the result it leaves or raises.
Construction(idArg, secretArg, regionArg, envId, envSecret, envRegion) ==
    IF ~Truthy(idArg) /\ envId = NONE THEN MissingEnv("GS_CC_CLIENT_ID")
    ELSE IF ~Truthy(secretArg) /\ envSecret = NONE THEN MissingEnv("GS_CC_CLIENT_SECRET")
    ELSE LET r == ResolveRegion(regionArg, envRegion) IN
         IF ~InRegionBaseUrls(r) THEN UnknownRegion(r)
         ELSE [region |-> r, base_url |-> REGION_BASE_URLS(r),
               error |-> "none", names |-> NONE, supported |-> <<>>]

NoCall ==
    [pending |-> FALSE, id |-> NONE, secret |-> NONE, region |-> NONE,
     envId |-> NONE, envSecret |-> NONE, envRegion |-> NONE]

NotCalled ==
    [region |-> NONE, base_url |-> NONE,
     error |-> "not_called", names |-> NONE, supported |-> <<>>]

(* ---------------------------------------------------------------------- *)
(* Requests                                                                *)
(* ---------------------------------------------------------------------- *)
NoRequest == [kind |-> "none", base_url |-> NONE, path |-> NONE, authorization |-> <<>>]

\* mutant: the token is requested from the default region's endpoint
TokenRequestAtDefault(base) ==
    [kind |-> "token", base_url |-> "https://api2-eu-west-1.insided.com",
     path |-> TOKEN_PATH, authorization |-> <<>>]

\* self._http.post(TOKEN_PATH, data={...}) on the client bound to base_url
TokenRequest(base) ==
    [kind |-> "token", base_url |-> base, path |-> TOKEN_PATH, authorization |-> <<>>]

\* headers={"Authorization": f"Bearer {self._access_token}", ...}
BearerHeader(tok) == <<"Bearer", Str(tok)>>

ResourceRequest(base, tok) ==
    [kind |-> "resource", base_url |-> base, path |-> "/v2/categories",
     authorization |-> BearerHeader(tok)]

Is2xx(status) == status >= 200 /\ status < 300

(* ---------------------------------------------------------------------- *)
(* _ensure_token                                                           *)
(* ---------------------------------------------------------------------- *)
\* mutant: the token is reused up to and including its expiry instant
TokenUsableAtExpiry(tok, exp, t) == Truthy(tok) /\ t <= exp

\* if self._access_token and time.time() < self._token_expires_at: return
TokenUsable(tok, exp, t) == Truthy(tok) /\ t < exp

\* data.get("expires_in", 3600)
ExpiresIn(body) ==
    IF body.expires_in.kind = "absent" THEN DefaultExpiresIn ELSE body.expires_in.val

\* mutant: the 60 s margin is not subtracted
ExpiresAtNoMargin(t, body) == t + ExpiresIn(body)

\* time.time() + data.get("expires_in", 3600) - 60
ExpiresAt(t, body) == t + ExpiresIn(body) - RefreshMargin

\* mutant: resp.raise_for_status() is not called on the token response
TokenOutcomeUnchecked(tok, exp, t, r) ==
    IF r.transport
    THEN [error |-> "TransportError", access_token |-> tok, token_expires_at |-> exp,
          wrote_token |-> FALSE, wrote_expiry |-> FALSE]
    ELSE IF ~r.body.json
    THEN [error |-> "JSONDecodeError", access_token |-> tok, token_expires_at |-> exp,
          wrote_token |-> FALSE, wrote_expiry |-> FALSE]
    ELSE IF ~r.body.access_token.present
    THEN [error |-> "KeyError", access_token |-> tok, token_expires_at |-> exp,
          wrote_token |-> FALSE, wrote_expiry |-> FALSE]
    ELSE IF r.body.expires_in.kind = "other"
    THEN [error |-> "TypeError", access_token |-> r.body.access_token.val,
          token_expires_at |-> exp, wrote_token |-> TRUE, wrote_expiry |-> FALSE]
    ELSE [error |-> "none", access_token |-> r.body.access_token.val,
          token_expires_at |-> ExpiresAt(t, r.body),
          wrote_token |-> TRUE, wrote_expiry |-> TRUE]

\* The statements after the await of the token POST, in order: the exception
\* raised (or "none"), the cache they leave, and which of the two assignments
\* (line 68, line 70) were executed.
TokenOutcome(tok, exp, t, r) ==
    IF r.transport
    THEN [error |-> "TransportError", access_token |-> tok, token_expires_at |-> exp,
          wrote_token |-> FALSE, wrote_expiry |-> FALSE]
    ELSE IF ~Is2xx(r.status)
    THEN [error |-> "HTTPStatusError", access_token |-> tok, token_expires_at |-> exp,
          wrote_token |-> FALSE, wrote_expiry |-> FALSE]
    ELSE IF ~r.body.json
    THEN [error |-> "JSONDecodeError", access_token |-> tok, token_expires_at |-> exp,
          wrote_token |-> FALSE, wrote_expiry |-> FALSE]
    ELSE IF ~r.body.access_token.present
    THEN [error |-> "KeyError", access_token |-> tok, token_expires_at |-> exp,
          wrote_token |-> FALSE, wrote_expiry |-> FALSE]
    ELSE IF r.body.expires_in.kind = "other"
    THEN [error |-> "TypeError", access_token |-> r.body.access_token.val,
          token_expires_at |-> exp, wrote_token |-> TRUE, wrote_expiry |-> FALSE]
    ELSE [error |-> "none", access_token |-> r.body.access_token.val,
          token_expires_at |-> ExpiresAt(t, r.body),
          wrote_token |-> TRUE, wrote_expiry |-> TRUE]

\* History of the cache: whether the token and the expiry were last written by
\* one and the same writer (the constructor, or one token response), whether
\* the token was written by a token response and the access_token member that
\* response carried, and for the expiry the time of the write and the
\* expires_in member of the response that caused it.
Unwritten ==
    [same |-> TRUE, from_response |-> FALSE, token |-> NONE, at |-> 0,
     expires_in |-> [kind |-> "absent", val |-> 0]]

Written(h, out, t, r) ==
    [same |-> IF out.wrote_token THEN out.wrote_expiry
              ELSE IF out.wrote_expiry THEN FALSE ELSE h.same,
     from_response |-> h.from_response \/ out.wrote_token,
     token |-> IF out.wrote_token THEN r.body.access_token.val ELSE h.token,
     at |-> IF out.wrote_expiry THEN t ELSE h.at,
     expires_in |-> IF out.wrote_expiry THEN r.body.expires_in ELSE h.expires_in]

(* ---------------------------------------------------------------------- *)
(* _request: the frame of an operation in flight                           *)
(* ---------------------------------------------------------------------- *)
\* the bag holding the one frame o
One(o) == SetToBag({o})

\* _ensure_token did not return early: the token POST is sent and awaited
OpAwaitingToken(base) ==
    [pc |-> "token_wait", posts |-> 1, gets |-> 0, missed |-> TRUE,
     ensured |-> FALSE, request |-> TokenRequest(base)]

\* mutant: _ensure_token posts for a new token although it found one usable
OpRefreshingAnyway ==
    [pc |-> "ensured", posts |-> 1, gets |-> 0, missed |-> FALSE,
     ensured |-> TRUE, request |-> NoRequest]

\* an operation whose _ensure_token returned at once
OpReusing ==
    [pc |-> "ensured", posts |-> 0, gets |-> 0, missed |-> FALSE,
     ensured |-> TRUE, request |-> NoRequest]

\* _ensure_token returned: the resource request is sent with the cached token
\* and awaited
OpAwaitingResource(o, base, tok) ==
    [o EXCEPT !.pc = "resource_wait", !.gets = @ + 1, !.ensured = TRUE,
              !.request = ResourceRequest(base, tok)]

\* mutant: a failed request is sent again
OpRetried(o, err, base) ==
    One(IF o.pc = "token_wait" THEN [o EXCEPT !.posts = @ + 1]
        ELSE [o EXCEPT !.gets = @ + 1])

\* an exception leaves _request: the frames the operation still has (none)
OpRaised(o, err, base) == EmptyBag

\* mutant: resp.raise_for_status() is not called
ResourceOutcomeUnchecked(r) ==
    IF r.transport THEN "TransportError"
    ELSE IF ~r.json THEN "JSONDecodeError"
    ELSE "ok"

\* resp = await self._http.request(...); resp.raise_for_status(); resp.json()
ResourceOutcome(r) ==
    IF r.transport THEN "TransportError"
    ELSE IF ~Is2xx(r.status) THEN "HTTPStatusError"
    ELSE IF ~r.json THEN "JSONDecodeError"
    ELSE "ok"

\* mutant: a failed resource request drops the cached token
CacheDroppedOnFailure(tok, exp, res) ==
    IF res = "ok" THEN [access_token |-> tok, token_expires_at |-> exp]
    ELSE [access_token |-> NONE, token_expires_at |-> 0]

\* _request does not assign to the cache after _ensure_token: the pair it
\* leaves when the resource request resumed with outcome res
CacheAfterResource(tok, exp, res) == [access_token |-> tok, token_expires_at |-> exp]

\* The latest resumption of an operation: which await resumed ("token" or
\* "resource"), the status of the response (0: none, the transport failed),
\* and what the operation did next: "continued" to its resource request,
\* returned "ok", or raised the named exception to its caller.
NothingResumed == [phase |-> "none", status |-> 0, outcome |-> "none"]

Resumed(phase, r, outcome) ==
    [phase |-> phase, status |-> IF r.transport THEN 0 ELSE r.status,
     outcome |-> outcome]

InFlight == BagToSet(ops)

(* ---------------------------------------------------------------------- *)
(* Content types and the paths of the client's operations                  *)
(* ---------------------------------------------------------------------- *)
\* CONTENT_TYPE_PATHS, in the dict's insertion order
ContentTypeKeys == <<"article", "conversation", "question", "idea", "productUpdate">>

\* mutant: the content type is used as its own path segment
ContentTypeAsSegment(ct) == ct

CONTENT_TYPE_PATHS(ct) ==
    CASE ct = "article" -> "articles"
      [] ct = "conversation" -> "conversations"
      [] ct = "question" -> "questions"
      [] ct = "idea" -> "ideas"
      [] ct = "productUpdate" -> "productUpdates"

InContentTypePaths(ct) == \E i \in 1..Len(ContentTypeKeys) : ContentTypeKeys[i] = ct

\* mutant: CONTENT_TYPE_PATHS.get(content_type, content_type)
PathSegmentOrGiven(ct) == IF InContentTypePaths(ct) THEN CONTENT_TYPE_PATHS(ct) ELSE ct

\* path_segment = CONTENT_TYPE_PATHS.get(content_type): None for a missing key
PathSegment(ct) == IF InContentTypePaths(ct) THEN CONTENT_TYPE_PATHS(ct) ELSE NONE

Digits == <<"0", "1", "2", "3", "4", "5", "6", "7", "8", "9">>

\* str(n) of a non-negative int, as the f-strings format an id
RECURSIVE IntStr(_)
IntStr(n) ==
    IF n < 10 THEN Digits[n + 1] ELSE IntStr(n \div 10) \o Digits[(n % 10) + 1]

\* the public methods of GainsightClient (close apart)
ClientMethods ==
    {"search", "list_topics", "list_questions", "list_conversations", "list_articles",
     "list_ideas", "list_product_updates", "get_topic_detail", "get_topic_replies",
     "get_topic_by_id", "list_categories", "list_tags", "list_moderator_tags",
     "get_category", "get_category_tree", "get_category_topic_counts",
     "list_topics_by_category", "list_idea_statuses", "list_product_areas",
     "get_poll_results", "get_reply"}

\* the methods that take a content type
TypedMethods == {"get_topic_detail", "get_topic_replies", "get_poll_results", "get_reply"}

\* the path each method hands to _request; seg is the path segment of its
\* content type, id and rid its id arguments
MethodPath(method, seg, id, rid) ==
    CASE method = "search" -> "/v2/topics/search"
      [] method = "list_topics" -> "/v2/topics"
      [] method = "list_questions" -> "/v2/questions"
      [] method = "list_conversations" -> "/v2/conversations"
      [] method = "list_articles" -> "/v2/articles"
      [] method = "list_ideas" -> "/v2/ideas"
      [] method = "list_product_updates" -> "/v2/productUpdates"
      [] method = "get_topic_detail" -> "/v2/" \o seg \o "/" \o IntStr(id)
      [] method = "get_topic_replies" -> "/v2/" \o seg \o "/" \o IntStr(id) \o "/replies"
      [] method = "get_topic_by_id" -> "/v2/topics"
      [] method = "list_categories" -> "/v2/categories"
      [] method = "list_tags" -> "/v2/tags"
      [] method = "list_moderator_tags" -> "/v2/moderatorTags"
      [] method = "get_category" -> "/v2/categories/" \o IntStr(id)
      [] method = "get_category_tree" -> "/v2/category/getTree"
      [] method = "get_category_topic_counts" -> "/v2/categories/getVisibleTopicsCount"
      [] method = "list_topics_by_category" -> "/v2/categories/" \o IntStr(id) \o "/topics"
      [] method = "list_idea_statuses" -> "/v2/ideas/ideaStatuses"
      [] method = "list_product_areas" -> "/v2/productAreas"
      [] method = "get_poll_results" -> "/v2/" \o seg \o "/" \o IntStr(id) \o "/poll"
      [] method = "get_reply" ->
            "/v2/" \o seg \o "/" \o IntStr(id) \o "/replies/" \o IntStr(rid)

(* ---------------------------------------------------------------------- *)
(* Python values and query parameters                                      *)
(* ---------------------------------------------------------------------- *)
\* an argument or a parameter value: None, a str, an int or a bool
PyNone == [t |-> "none", s |-> "", n |-> 0]
PyStr(v) == [t |-> "str", s |-> v, n |-> 0]
PyInt(v) == [t |-> "int", s |-> "", n |-> v]
PyBool(v) == [t |-> "bool", s |-> "", n |-> IF v THEN 1 ELSE 0]

IsNone(v) == v.t = "none"

\* the truth value of v: None, "", 0 and False are falsy
Truth(v) ==
    CASE v.t = "none" -> FALSE
      [] v.t = "str" -> v.s # ""
      [] v.t = "int" -> v.n # 0
      [] v.t = "bool" -> v.n = 1

\* a dict is a function from its keys; params=None transmits what {} does
NoParams == <<>>

\* {k: v for k, v in params.items() if v is not None}
Clean(params) == [k \in {j \in DOMAIN params : ~IsNone(params[j])} |-> params[k]]

\* json.dumps of a value
DumpsValue(v) ==
    CASE v.t = "none" -> "null"
      [] v.t = "str" -> "\"" \o v.s \o "\""
      [] v.t = "int" -> IntStr(v.n)
      [] v.t = "bool" -> IF v.n = 1 THEN "true" ELSE "false"

\* the items of json.dumps(d), for the keys of d in the order keys
RECURSIVE DumpsItems(_, _)
DumpsItems(d, keys) ==
    IF keys = <<>> THEN ""
    ELSE LET k == Head(keys)
             rest == DumpsItems(d, Tail(keys))
         IN  IF k \in DOMAIN d
             THEN "\"" \o k \o "\": " \o DumpsValue(d[k])
                    \o (IF rest = "" THEN "" ELSE ", " \o rest)
             ELSE rest

\* json.dumps of a range dict, whose keys were inserted as "from", "to"
Dumps(d) == "{" \o DumpsItems(d, <<"from", "to">>) \o "}"

\* created_at = None
\* if created_after or created_before:
\*     created_at = _clean({"from": created_after, "to": created_before})
DateRange(after, before) ==
    IF Truth(after) \/ Truth(before)
    THEN [none |-> FALSE, map |-> Clean([from |-> after, to |-> before])]
    ELSE [none |-> TRUE, map |-> NoParams]

\* json.dumps(created_at) if created_at else None
RangeParam(after, before) ==
    LET d == DateRange(after, before) IN
    IF ~d.none /\ DOMAIN d.map # {} THEN PyStr(Dumps(d.map)) ELSE PyNone

(* ---------------------------------------------------------------------- *)
(* The client's methods                                                    *)
(* ---------------------------------------------------------------------- *)
\* a call of a client method: its name and arguments
MethodCall(method, ct, id, rid, params) ==
    [method |-> method, content_type |-> ct, id |-> id, reply_id |-> rid,
     params |-> params]

\* the ValueError of an unknown content type: the value and
\* ', '.join(CONTENT_TYPE_PATHS)
UnknownContentType(ct) ==
    [error |-> "ValueError", names |-> ct, supported |-> ContentTypeKeys,
     method |-> NONE, path |-> NONE, params |-> NoParams]

\* the params a method hands to _request
MethodParams(c) ==
    IF c.method = "get_topic_by_id" THEN [id |-> PyInt(c.id)]
    ELSE IF c.method \in {"get_topic_detail", "get_category", "get_category_tree",
                          "get_category_topic_counts", "list_idea_statuses",
                          "list_product_areas", "get_poll_results", "get_reply"}
    THEN NoParams
    ELSE c.params

\* The body of a client method up to its call of _request: the exception it
\* raises, or the path and params of the request.
ClientRequest(c) ==
    IF c.method \notin ClientMethods
    THEN [error |-> "AttributeError", names |-> c.method, supported |-> <<>>,
          method |-> NONE, path |-> NONE, params |-> NoParams]
    ELSE IF c.method \in TypedMethods /\ ~Truthy(PathSegment(c.content_type))
    THEN UnknownContentType(c.content_type)
    ELSE [error |-> "none", names |-> NONE, supported |-> <<>>,
          method |-> c.method,
          path |-> MethodPath(c.method,
                              IF c.method \in TypedMethods
                              THEN PathSegment(c.content_type) ELSE NONE,
                              c.id, c.reply_id),
          params |-> MethodParams(c)]

(* ---------------------------------------------------------------------- *)
(* The tools of server.py: the first client call each makes                *)
(* ---------------------------------------------------------------------- *)
\* mutant: content_type does not route, the unified endpoint gets every call
ListTopicsCallUnified(a) ==
    MethodCall("list_topics", NONE, 0, 0,
        Clean([categoryIds |-> a.category_ids,
               tags |-> a.tags,
               moderatorTags |-> a.moderator_tags,
               contentTypes |-> a.content_types,
               sort |-> a.sort,
               createdAt |-> RangeParam(a.created_after, a.created_before),
               lastActivity |-> RangeParam(a.active_after, a.active_before),
               page |-> a.page,
               pageSize |-> a.page_size]))

\* list_topics up to its client call
ListTopicsCall(a) ==
    IF Truth(a.content_type)
    THEN LET params == Clean([page |-> a.page, pageSize |-> a.page_size]) IN
         MethodCall(CASE a.content_type = PyStr("question") -> "list_questions"
                      [] a.content_type = PyStr("conversation") -> "list_conversations"
                      [] a.content_type = PyStr("article") -> "list_articles"
                      [] a.content_type = PyStr("idea") -> "list_ideas"
                      [] a.content_type = PyStr("productUpdate") -> "list_product_updates"
                      [] OTHER -> "list_topics",
                    NONE, 0, 0, params)
    ELSE MethodCall("list_topics", NONE, 0, 0,
            Clean([categoryIds |-> a.category_ids,
                   tags |-> a.tags,
                   moderatorTags |-> a.moderator_tags,
                   contentTypes |-> a.content_types,
                   sort |-> a.sort,
                   createdAt |-> RangeParam(a.created_after, a.created_before),
                   lastActivity |-> RangeParam(a.active_after, a.active_before),
                   page |-> a.page,
                   pageSize |-> a.page_size]))

\* list_topics_by_category up to its client call
ListTopicsByCategoryCall(a) ==
    MethodCall("list_topics_by_category", NONE, a.category_id, 0,
        Clean([tags |-> a.tags,
               moderatorTags |-> a.moderator_tags,
               sort |-> a.sort,
               createdAt |-> RangeParam(a.created_after, a.created_before),
               lastActivity |-> RangeParam(a.active_after, a.active_before),
               page |-> a.page,
               pageSize |-> a.page_size]))

\* The client call a tool makes first, from its arguments a.  The caller
\* named "client" calls a method of the client directly: a is that call.
ToolCall(name, a) ==
    CASE name = "client" -> a
      [] name = "search_community" ->
            MethodCall("search", NONE, 0, 0,
                Clean([q |-> a.query,
                       categoryIds |-> a.category_ids,
                       contentTypes |-> a.content_types,
                       tags |-> a.tags,
                       moderatorTags |-> a.moderator_tags,
                       hasAnswer |-> a.has_answer,
                       page |-> a.page]))
      [] name = "search_tags" ->
            MethodCall("search_tags", NONE, 0, 0,
                Clean([q |-> a.query, page |-> a.page]))
      [] name = "list_topics" -> ListTopicsCall(a)
      [] name = "get_topic" -> MethodCall("get_topic_by_id", NONE, a.topic_id, 0, NoParams)
      [] name = "list_ideas" ->
            MethodCall("list_ideas", NONE, 0, 0,
                Clean([page |-> a.page, pageSize |-> a.page_size]))
      [] name = "list_tags" ->
            MethodCall("list_tags", NONE, 0, 0,
                Clean([page |-> a.page, pageSize |-> a.page_size]))
      [] name = "list_topics_by_category" -> ListTopicsByCategoryCall(a)
      [] name = "get_poll_results" ->
            MethodCall("get_poll_results", a.content_type, a.topic_id, 0, NoParams)
      [] name = "get_reply" ->
            MethodCall("get_reply", a.content_type, a.topic_id, a.reply_id, NoParams)

(* ---------------------------------------------------------------------- *)
(* Upstream bodies and what a tool returns                                 *)
(* ---------------------------------------------------------------------- *)
\* A decoded JSON object: tag stands for the members the tools do not look
\* at, has_result and result for its "result" member (a list of objects
\* with a contentType), metadata for its "_metadata" member.
NoJson ==
    [tag |-> NONE, has_result |-> FALSE, result |-> <<>>,
     metadata |-> [present |-> FALSE, totalCount |-> 0]]

Json(tag, has_result, result) ==
    [tag |-> tag, has_result |-> has_result, result |-> result,
     metadata |-> [present |-> FALSE, totalCount |-> 0]]

\* {"result": [], "_metadata": {"totalCount": 0}}
EmptyReplies ==
    [tag |-> NONE, has_result |-> TRUE, result |-> <<>>,
     metadata |-> [present |-> TRUE, totalCount |-> 0]]

\* the url fields upstream puts in a result: a relative and an absolute one
UpstreamUrls == {"/topic/7", "https://other.example.com/t/7"}

\* the bodies upstream answers with: objects without "result", one with an
\* empty result list, ones whose first result has the given contentType,
\* and ones whose first result has a url field as well
UpstreamBodies ==
    {Json(tg, FALSE, <<>>) : tg \in {"b1", "b2"}}
    \cup {Json("b1", TRUE, <<>>)}
    \cup {Json("b1", TRUE, <<[contentType |-> ct]>>) :
            ct \in {"question", "productUpdate", "event"}}
    \cup {Json("b2", TRUE, <<[contentType |-> "question", url |-> u]>>) :
            u \in UpstreamUrls}

\* what the await of a tool's resource request can resume with
UpstreamResponses ==
    {[transport |-> TRUE, status |-> 0, json |-> FALSE, body |-> NoJson]}
    \cup {[transport |-> FALSE, status |-> st, json |-> FALSE, body |-> NoJson] :
            st \in {404, 500}}
    \cup {[transport |-> FALSE, status |-> 200, json |-> FALSE, body |-> NoJson]}
    \cup {[transport |-> FALSE, status |-> 200, json |-> TRUE, body |-> b] :
            b \in UpstreamBodies}

\* the token responses the tools are run against: a refusal and a grant
GrantOrRefusal ==
    {r \in TokenResponses :
        \/ r.status = 401
        \/ /\ r.status = 200 /\ r.body.json
           /\ r.body.access_token = [present |-> TRUE, val |-> "tok-A"]
           /\ r.body.expires_in = [kind |-> "number", val |-> 3600]}

\* what a caller gets: nothing yet, a returned value or a raised exception.
\* A value is a decoded body (a client method's), its json.dumps (a tool's),
\* the error object of get_topic, or a topic with its replies attached.
NoValue == [shape |-> "none", body |-> NoJson, replies |-> NoJson, id |-> 0]

NoReply == [kind |-> "none", error |-> "none", names |-> NONE, value |-> NoValue]

Raised(error, names) ==
    [kind |-> "raised", error |-> error, names |-> names, value |-> NoValue]

Returned(value) ==
    [kind |-> "returned", error |-> "none", names |-> NONE, value |-> value]

\* result / json.dumps(result, indent=2)
BodyValue(body) == [shape |-> "body", body |-> body, replies |-> NoJson, id |-> 0]

\* json.dumps({"error": f"Topic {topic_id} not found"})
NotFoundValue(id) == [shape |-> "error_object", body |-> NoJson, replies |-> NoJson, id |-> id]

\* topic["replies"] = replies; json.dumps(topic, indent=2)
TopicValue(topic, replies) ==
    [shape |-> "topic", body |-> topic, replies |-> replies, id |-> 0]

(* ---------------------------------------------------------------------- *)
(* The caller's frame: a tool (or a direct caller of the client) awaiting  *)
(* a client method                                                         *)
(* ---------------------------------------------------------------------- *)
NoTool ==
    [name |-> "none", pc |-> "idle", args |-> <<>>, step |-> "none",
     method |-> NONE, path |-> NONE, params |-> NoParams,
     content_type |-> NONE, topic |-> NoJson, issued |-> <<>>]

\* the frame of the caller name(a) awaiting the request req of its step
ToolAwaiting(name, a, step, req, ct, topic, issued) ==
    [name |-> name, pc |-> "awaiting", args |-> a, step |-> step,
     method |-> req.method, path |-> req.path, params |-> req.params,
     content_type |-> ct, topic |-> topic,
     issued |-> Append(issued, [method |-> req.method, path |-> req.path])]

\* the frame o with its resource request addressed to path
At(o, path) ==
    IF o.pc = "resource_wait" THEN [o EXCEPT !.request.path = path] ELSE o

\* _request(method, path, params) up to its first await, on the cache
\* (tok, exp) at time t: the frame it leaves in flight
RequestFrame(tok, exp, t, base, path) ==
    IF TokenUsable(tok, exp, t)
    THEN At(OpAwaitingResource(OpReusing, base, tok), path)
    ELSE OpAwaitingToken(base)

\* try: replies = await client.get_topic_replies(...)
\* except httpx.HTTPStatusError: replies = {"result": [], ...}
\* mutant: no except clause
RepliesUncaught(res, body) ==
    IF res = "ok" THEN [error |-> "none", replies |-> body]
    ELSE [error |-> res, replies |-> NoJson]

RepliesOrEmpty(res, body) ==
    IF res = "ok" THEN [error |-> "none", replies |-> body]
    ELSE IF res = "HTTPStatusError" THEN [error |-> "none", replies |-> EmptyReplies]
    ELSE [error |-> res, replies |-> NoJson]

\* mutant: the replies are fetched before the detail
TopicMethodRepliesFirst(step) ==
    CASE step = "lookup" -> "get_topic_by_id"
      [] step = "detail" -> "get_topic_replies"
      [] step = "replies" -> "get_topic_detail"

\* the client method get_topic awaits in each of its three steps
TopicMethod(step) ==
    CASE step = "lookup" -> "get_topic_by_id"
      [] step = "detail" -> "get_topic_detail"
      [] step = "replies" -> "get_topic_replies"

\* The caller's code after the awaited client method ended with res ("ok"
\* and the decoded body, or the exception raised): it returns a value,
\* raises, or calls the next client method.
NoNext == MethodCall(NONE, NONE, 0, 0, NoParams)

Return(value) ==
    [kind |-> "return", error |-> "none", value |-> value, step |-> "done",
     call |-> NoNext, content_type |-> NONE, topic |-> NoJson]

Raise(error) ==
    [kind |-> "raise", error |-> error, value |-> NoValue, step |-> "done",
     call |-> NoNext, content_type |-> NONE, topic |-> NoJson]

CallNext(step, ct, id, topic) ==
    [kind |-> "call", error |-> "none", value |-> NoValue, step |-> step,
     call |-> MethodCall(TopicMethod(step), ct, id, 0, NoParams),
     content_type |-> ct, topic |-> topic]

AfterCall(tl, res, body) ==
    IF tl.name # "get_topic"
    THEN IF res = "ok" THEN Return(BodyValue(body)) ELSE Raise(res)
    ELSE IF tl.step = "lookup"
    THEN IF res # "ok" THEN Raise(res)
         ELSE LET results == IF body.has_result THEN body.result ELSE <<>> IN
              IF results = <<>> THEN Return(NotFoundValue(tl.args.topic_id))
              ELSE CallNext("detail", results[1].contentType, tl.args.topic_id, NoJson)
    ELSE IF tl.step = "detail"
    THEN IF res # "ok" THEN Raise(res)
         ELSE CallNext("replies", tl.content_type, tl.args.topic_id, body)
    ELSE LET got == RepliesOrEmpty(res, body) IN
         IF got.error # "none" THEN Raise(got.error)
         ELSE Return(TopicValue(tl.topic, got.replies))

(* ---------------------------------------------------------------------- *)
(* Arguments the callers are run with                                      *)
(* ---------------------------------------------------------------------- *)
TopicIds == {7, 42}
ReplyIds == {3, 120}

\* content types given to the client's methods: the closed set and others
ContentTypeArgs ==
    {"article", "conversation", "question", "idea", "productUpdate", "invalid", ""}

\* an optional str argument: None, the empty string or a value
OptStr(v) == {PyNone, PyStr(""), PyStr(v)}
OptInt(v) == {PyNone, PyInt(v)}

\* how many of the arguments named in names are supplied (are not None)
Supplied(a, names) == Cardinality({k \in names : ~IsNone(a[k])})

SearchCommunityArgs ==
    {a \in [query : {PyStr("sso")},
            category_ids : OptStr("12,15"),
            content_types : OptStr("question,idea"),
            tags : OptStr("release"),
            moderator_tags : OptStr("triaged"),
            has_answer : {PyNone, PyBool(TRUE), PyBool(FALSE)},
            page : OptInt(2)] :
        Supplied(a, {"category_ids", "content_types", "tags", "moderator_tags",
                     "has_answer", "page"}) <= MaxSupplied}

SearchTagsArgs == [query : OptStr("rel"), page : OptInt(2)]

ListTopicsArgs ==
    {a \in [content_type : {PyNone, PyStr(""), PyStr("article"),
                            PyStr("conversation"), PyStr("question"), PyStr("idea"),
                            PyStr("productUpdate"), PyStr("event")},
            category_ids : {PyNone, PyStr("12,15")},
            tags : OptStr("release"),
            moderator_tags : {PyNone, PyStr("triaged")},
            content_types : {PyNone, PyStr("question,idea")},
            sort : {PyNone, PyStr("createdAt")},
            created_after : OptStr("2024-01-01"),
            created_before : OptStr("2024-12-31"),
            active_after : OptStr("2024-06-01"),
            active_before : OptStr("2024-06-30"),
            page : OptInt(2),
            page_size : OptInt(25)] :
        Supplied(a, {"content_type", "category_ids", "tags", "moderator_tags",
                     "content_types", "sort", "created_after", "created_before",
                     "active_after", "active_before", "page", "page_size"})
          <= MaxSupplied}

PagingArgs == [page : OptInt(2), page_size : OptInt(25)]

ListTopicsByCategoryArgs ==
    {a \in [category_id : {5},
            tags : OptStr("release"),
            moderator_tags : {PyNone, PyStr("triaged")},
            sort : {PyNone, PyStr("createdAt")},
            created_after : OptStr("2024-01-01"),
            created_before : OptStr("2024-12-31"),
            active_after : OptStr("2024-06-01"),
            active_before : OptStr("2024-06-30"),
            page : OptInt(2),
            page_size : OptInt(25)] :
        Supplied(a, {"tags", "moderator_tags", "sort", "created_after",
                     "created_before", "active_after", "active_before", "page",
                     "page_size"}) <= MaxSupplied}

GetTopicArgs == [topic_id : TopicIds]
GetPollResultsArgs == [topic_id : TopicIds, content_type : ContentTypeArgs]
GetReplyArgs == [topic_id : TopicIds, reply_id : ReplyIds, content_type : ContentTypeArgs]

\* direct calls of the client's methods
ClientCalls ==
    {MethodCall(m, ct, id, 0, NoParams) :
        m \in {"get_topic_detail", "get_topic_replies", "get_poll_results"},
        ct \in ContentTypeArgs, id \in TopicIds}
    \cup {MethodCall("get_reply", ct, id, rid, NoParams) :
            ct \in ContentTypeArgs, id \in TopicIds, rid \in ReplyIds}
    \cup {MethodCall("list_categories", NONE, 0, 0, NoParams)}
    \cup {MethodCall(m, NONE, 0, 0, NoParams) :
            m \in {"search", "list_topics", "list_questions", "list_conversations",
                   "list_articles", "list_ideas", "list_product_updates", "list_tags",
                   "list_moderator_tags", "get_category_tree",
                   "get_category_topic_counts", "list_idea_statuses",
                   "list_product_areas"}}
    \cup {MethodCall(m, NONE, 7, 0, NoParams) :
            m \in {"get_topic_by_id", "get_category", "list_topics_by_category"}}

(* ---------------------------------------------------------------------- *)
(* Initial state: the module is imported, no client exists yet             *)
(* ---------------------------------------------------------------------- *)
Init ==
    /\ constructed = FALSE
    /\ region = NONE
    /\ base_url = NONE
    /\ access_token = NONE
    /\ token_expires_at = 0
    /\ call = NoCall
    /\ ctor = NotCalled
    /\ now = StartTime
    /\ ticks = 0
    /\ ops = EmptyBag
    /\ stored = Unwritten
    /\ last = NothingResumed
    /\ tool = NoTool
    /\ reply = NoReply

(* ---------------------------------------------------------------------- *)
(* Actions                                                                 *)
(* ---------------------------------------------------------------------- *)
\* A caller invokes GainsightClient(client_id, client_secret, region) under
\* an environment: the arguments and the three environment variables read.
CallConstructor(idArg, secretArg, regionArg, envId, envSecret, envRegion) ==
    /\ ~constructed
    /\ ~call.pending
    /\ call' = [pending |-> TRUE, id |-> idArg, secret |-> secretArg,
                region |-> regionArg, envId |-> envId, envSecret |-> envSecret,
                envRegion |-> envRegion]
    /\ UNCHANGED <<constructed, region, base_url, ctor, cacheVars, now, ticks, ops,
                   stored, last>>

\* __init__ runs.  A raised exception leaves no object; otherwise the object
\* starts with _access_token = None and _token_expires_at = 0.
Construct ==
    /\ call.pending
    /\ LET res == Construction(call.id, call.secret, call.region,
                               call.envId, call.envSecret, call.envRegion) IN
       /\ ctor' = res
       /\ constructed' = (res.error = "none")
       /\ region' = res.region
       /\ base_url' = res.base_url
    /\ call' = NoCall
    /\ access_token' = NONE
    /\ token_expires_at' = 0
    /\ stored' = Unwritten
    /\ UNCHANGED <<now, ticks, ops, last>>

\* A coroutine calls a public method, which calls _request: _ensure_token runs
\* up to its first await (or returns early), and on an early return _request
\* goes on to send the resource request and awaits it.
Start ==
    /\ constructed
    /\ BagCardinality(ops) < MaxInFlight
    /\ ops' = ops (+) One(IF TokenUsable(access_token, token_expires_at, now)
                          THEN OpAwaitingResource(OpReusing, base_url, access_token)
                          ELSE OpAwaitingToken(base_url))
    /\ UNCHANGED <<clientVars, cacheVars, now, ticks, stored, last>>

\* The token POST of operation o resumes with r: the rest of _ensure_token
\* runs, and if it returns, _request sends the resource request with the
\* cached token.
TokenResponse(o, r) ==
    /\ o \in InFlight
    /\ o.pc = "token_wait"
    /\ LET out == TokenOutcome(access_token, token_expires_at, now, r) IN
       /\ access_token' = out.access_token
       /\ token_expires_at' = out.token_expires_at
       /\ stored' = Written(stored, out, now, r)
       /\ IF out.error = "none"
          THEN /\ ops' = (ops (-) One(o))
                           (+) One(OpAwaitingResource(o, base_url, out.access_token))
               /\ last' = Resumed("token", r, "continued")
          ELSE /\ ops' = (ops (-) One(o)) (+) OpRaised(o, out.error, base_url)
               /\ last' = Resumed("token", r, out.error)
    /\ UNCHANGED <<clientVars, now, ticks>>

\* The resource request of operation o resumes with r: raise_for_status, then
\* resp.json() is returned.
ResourceResponse(o, r) ==
    /\ o \in InFlight
    /\ o.pc = "resource_wait"
    /\ LET res == ResourceOutcome(r) IN
       /\ ops' = (ops (-) One(o))
                   (+) (IF res = "ok" THEN EmptyBag ELSE OpRaised(o, res, base_url))
       /\ last' = Resumed("resource", r, res)
       /\ access_token' =
              CacheAfterResource(access_token, token_expires_at, res).access_token
       /\ token_expires_at' =
              CacheAfterResource(access_token, token_expires_at, res).token_expires_at
    /\ UNCHANGED <<clientVars, now, ticks, stored>>

\* time passes
Tick(d) ==
    /\ ticks < MaxTicks
    /\ ticks' = ticks + 1
    /\ now' = now + d
    /\ UNCHANGED <<clientVars, cacheVars, ops, stored, last>>

CallAny ==
    \E idArg \in CredArgs, secretArg \in CredArgs, regionArg \in RegionArgs,
       envId \in EnvCreds, envSecret \in EnvCreds, envRegion \in EnvRegions :
        CallConstructor(idArg, secretArg, regionArg, envId, envSecret, envRegion)

\* concurrent callers sharing the client
Next ==
    \/ CallAny /\ UNCHANGED toolVars
    \/ Construct /\ UNCHANGED toolVars
    \/ Start /\ UNCHANGED toolVars
    \/ \E o \in InFlight, r \in TokenResponses :
          TokenResponse(o, r) /\ UNCHANGED toolVars
    \/ \E o \in InFlight, r \in ResourceResponses :
          ResourceResponse(o, r) /\ UNCHANGED toolVars
    \/ \E d \in Deltas : Tick(d) /\ UNCHANGED toolVars

Spec == Init /\ [][Next]_vars

\* sequential callers: an operation starts only when none is in flight
NextSeq ==
    \/ CallAny /\ UNCHANGED toolVars
    \/ Construct /\ UNCHANGED toolVars
    \/ (ops = EmptyBag /\ Start) /\ UNCHANGED toolVars
    \/ \E o \in InFlight, r \in TokenResponses :
          TokenResponse(o, r) /\ UNCHANGED toolVars
    \/ \E o \in InFlight, r \in ResourceResponses :
          ResourceResponse(o, r) /\ UNCHANGED toolVars
    \/ \E d \in Deltas : Tick(d) /\ UNCHANGED toolVars

SeqSpec == Init /\ [][NextSeq]_vars

(* ---------------------------------------------------------------------- *)
(* Callers of the client: its methods called directly, and the tools       *)
(* ---------------------------------------------------------------------- *)
\* the client that exists, as a constructor result
Existing ==
    [region |-> region, base_url |-> base_url,
     error |-> "none", names |-> NONE, supported |-> <<>>]

\* mutant: every call of _get_client() constructs a client
GetClientAlwaysNew(envId, envSecret, envRegion) ==
    Construction(NONE, NONE, NONE, envId, envSecret, envRegion)

\* _get_client(): the module's client, constructed from the environment
\* alone when there is none yet
GetClient(envId, envSecret, envRegion) ==
    IF constructed THEN Existing
    ELSE Construction(NONE, NONE, NONE, envId, envSecret, envRegion)

\* The caller name(a) runs up to its first await on the client `made`: an
\* exception of the constructor or of the client method ends it, otherwise
\* the method's _request runs up to its first await and the caller awaits it.
Enter(name, a, made) ==
    /\ tool.pc = "idle"
    /\ ~call.pending
    /\ ops = EmptyBag
    /\ IF made.error # "none"
       THEN /\ ctor' = made
            /\ reply' = Raised(made.error, made.names)
            /\ tool' = NoTool
            /\ UNCHANGED <<constructed, region, base_url, cacheVars, ops, stored>>
       ELSE LET fresh == ~constructed
                tok == IF fresh THEN NONE ELSE access_token
                exp == IF fresh THEN 0 ELSE token_expires_at
                req == ClientRequest(ToolCall(name, a))
            IN  /\ constructed' = TRUE
                /\ region' = made.region
                /\ base_url' = made.base_url
                /\ ctor' = IF fresh THEN made ELSE ctor
                /\ access_token' = tok
                /\ token_expires_at' = exp
                /\ stored' = IF fresh THEN Unwritten ELSE stored
                /\ IF req.error # "none"
                   THEN /\ reply' = Raised(req.error, req.names)
                        /\ tool' = NoTool
                        /\ ops' = ops
                   ELSE /\ reply' = NoReply
                        /\ tool' = ToolAwaiting(name, a,
                                     IF name = "get_topic" THEN "lookup" ELSE "call",
                                     req, NONE, NoJson, <<>>)
                        /\ ops' = ops (+) One(RequestFrame(tok, exp, now,
                                                           made.base_url, req.path))
    /\ UNCHANGED <<call, now, ticks, last>>

\* The token POST of the awaited method's _request resumes with r: the rest
\* of _ensure_token runs; if it returns, the resource request is sent to the
\* method's path, and if it raises, the exception ends the caller.
TokenArrives(o, r) ==
    /\ tool.pc = "awaiting"
    /\ o \in InFlight
    /\ o.pc = "token_wait"
    /\ LET out == TokenOutcome(access_token, token_expires_at, now, r) IN
       /\ access_token' = out.access_token
       /\ token_expires_at' = out.token_expires_at
       /\ stored' = Written(stored, out, now, r)
       /\ IF out.error = "none"
          THEN /\ ops' = (ops (-) One(o))
                           (+) One(At(OpAwaitingResource(o, base_url, out.access_token),
                                      tool.path))
               /\ UNCHANGED <<tool, reply>>
          ELSE /\ ops' = (ops (-) One(o)) (+) OpRaised(o, out.error, base_url)
               /\ tool' = NoTool
               /\ reply' = Raised(out.error, NONE)
    /\ UNCHANGED <<clientVars, now, ticks, last>>

\* The resource request of the awaited method resumes with r: _request
\* returns the decoded body or raises, and the caller runs on to its return,
\* to an exception, or to its next client call and that call's first await.
ResponseArrives(o, r) ==
    /\ tool.pc = "awaiting"
    /\ o \in InFlight
    /\ o.pc = "resource_wait"
    /\ LET res == ResourceOutcome(r)
           nxt == AfterCall(tool, res, r.body)
           left == (ops (-) One(o))
                     (+) (IF res = "ok" THEN EmptyBag ELSE OpRaised(o, res, base_url))
           req == ClientRequest(nxt.call)
       IN  /\ access_token' =
                  CacheAfterResource(access_token, token_expires_at, res).access_token
           /\ token_expires_at' =
                  CacheAfterResource(access_token, token_expires_at, res).token_expires_at
           /\ IF nxt.kind = "return"
              THEN /\ reply' = Returned(nxt.value)
                   /\ tool' = NoTool
                   /\ ops' = left
              ELSE IF nxt.kind = "raise"
              THEN /\ reply' = Raised(nxt.error, NONE)
                   /\ tool' = NoTool
                   /\ ops' = left
              ELSE IF req.error # "none"
              THEN /\ reply' = Raised(req.error, req.names)
                   /\ tool' = NoTool
                   /\ ops' = left
              ELSE /\ reply' = reply
                   /\ tool' = ToolAwaiting(tool.name, tool.args, nxt.step, req,
                                           nxt.content_type, nxt.topic, tool.issued)
                   /\ ops' = left (+) One(RequestFrame(access_token, token_expires_at,
                                                       now, base_url, req.path))
    /\ UNCHANGED <<clientVars, now, ticks, stored, last>>

\* a caller that holds the constructed client calls one of its methods
ClientCall(c) == constructed /\ Enter("client", c, Existing)

\* a program using the client directly, one call after the other
ApiNext ==
    \/ CallAny /\ UNCHANGED toolVars
    \/ Construct /\ UNCHANGED toolVars
    \/ \E c \in ClientCalls : ClientCall(c)
    \/ \E o \in InFlight, r \in GrantOrRefusal : TokenArrives(o, r)
    \/ \E o \in InFlight, r \in UpstreamResponses : ResponseArrives(o, r)

ApiSpec == Init /\ [][ApiNext]_vars

\* the environment variables the server process may run under
Envs == [id : EnvCreds, secret : EnvCreds, region : EnvRegions]

\* a tool (or a caller of the module client's methods) is invoked: it gets
\* the client from _get_client() and runs up to its first await
Tool(name, a) == \E e \in Envs : Enter(name, a, GetClient(e.id, e.secret, e.region))

search_community(a) == Tool("search_community", a)
search_tags(a) == Tool("search_tags", a)
list_topics(a) == Tool("list_topics", a)
get_topic(a) == Tool("get_topic", a)
list_ideas(a) == Tool("list_ideas", a)
list_tags(a) == Tool("list_tags", a)
list_topics_by_category(a) == Tool("list_topics_by_category", a)
get_poll_results(a) == Tool("get_poll_results", a)
get_reply(a) == Tool("get_reply", a)

\* the first call the server process handles
FirstCall == ~constructed /\ ctor = NotCalled /\ reply = NoReply /\ tool = NoTool

\* the server process handling its first call, to completion
ToolNext ==
    \/ FirstCall /\ \E a \in SearchCommunityArgs : search_community(a)
    \/ FirstCall /\ \E a \in SearchTagsArgs : search_tags(a)
    \/ FirstCall /\ \E a \in ListTopicsArgs : list_topics(a)
    \/ FirstCall /\ \E a \in GetTopicArgs : get_topic(a)
    \/ FirstCall /\ \E a \in PagingArgs : list_ideas(a)
    \/ FirstCall /\ \E a \in PagingArgs : list_tags(a)
    \/ FirstCall /\ \E a \in ListTopicsByCategoryArgs : list_topics_by_category(a)
    \/ FirstCall /\ \E a \in GetPollResultsArgs : get_poll_results(a)
    \/ FirstCall /\ \E a \in GetReplyArgs : get_reply(a)
    \/ FirstCall /\ \E c \in ClientCalls : Tool("client", c)
    \/ \E o \in InFlight, r \in GrantOrRefusal : TokenArrives(o, r)
    \/ \E o \in InFlight, r \in UpstreamResponses : ResponseArrives(o, r)

ToolSpec == Init /\ [][ToolNext]_vars

\* the calls of args that leave every optional filter unset
Unfiltered(args) ==
    {a \in args :
        Supplied(a, DOMAIN a \ {"query", "category_id"}) = 0}

\* the server process over its lifetime: one tool call after the other, all
\* through _get_client(), while time passes.  Which client a call gets does
\* not depend on its filters: the three tools with many are called without.
ServerNext ==
    \/ \E a \in Unfiltered(SearchCommunityArgs) : search_community(a)
    \/ \E a \in SearchTagsArgs : search_tags(a)
    \/ \E a \in Unfiltered(ListTopicsArgs) : list_topics(a)
    \/ \E a \in GetTopicArgs : get_topic(a)
    \/ \E a \in PagingArgs : list_ideas(a)
    \/ \E a \in PagingArgs : list_tags(a)
    \/ \E a \in Unfiltered(ListTopicsByCategoryArgs) : list_topics_by_category(a)
    \/ \E a \in GetPollResultsArgs : get_poll_results(a)
    \/ \E a \in GetReplyArgs : get_reply(a)
    \/ \E o \in InFlight, r \in GrantOrRefusal : TokenArrives(o, r)
    \/ \E o \in InFlight, r \in UpstreamResponses : ResponseArrives(o, r)
    \/ \E d \in Deltas : Tick(d) /\ UNCHANGED toolVars

ServerSpec == Init /\ [][ServerNext]_vars

(* ---------------------------------------------------------------------- *)
(* Vocabulary of the properties                                            *)
(* ---------------------------------------------------------------------- *)
Awaiting(b, pc) == {o \in BagToSet(b) : o.pc = pc}

\* how many operations of bag b await the token POST / the resource request
CountAwaiting(b, pc) ==
    BagCardinality([o \in Awaiting(b, pc) |-> CopiesIn(o, b)])

\* the operations in b that are not in a (with multiplicity)
Added(a, b) == {o \in BagToSet(b) : CopiesIn(o, b) > CopiesIn(o, a)}

\* this step is the start of an operation
OpStarts == BagCardinality(ops') = BagCardinality(ops) + 1

\* this step resumes an operation that awaited the token POST / the resource
TokenResumes == CountAwaiting(ops', "token_wait") < CountAwaiting(ops, "token_wait")
ResourceResumes ==
    CountAwaiting(ops', "resource_wait") < CountAwaiting(ops, "resource_wait")

Exceptions ==
    {"TransportError", "HTTPStatusError", "JSONDecodeError", "KeyError", "TypeError"}

\* a status outside 200..299
NonSuccess(status) == status # 0 /\ (status < 200 \/ status > 299)

(* ---------------------------------------------------------------------- *)
(* C1                                                                      *)
(* ---------------------------------------------------------------------- *)
\* the cache was last written, token and expiry together, by a token response
\* that carried a token and expires_in = 3600
FetchedWith3600 ==
    /\ stored.from_response /\ stored.same
    /\ access_token # NONE
    /\ stored.expires_in = [kind |-> "number", val |-> 3600]

\* C1: with sequential callers, an operation issues a token request if and
\* only if no token is cached or the time is not before the cached expiry
\* (reuse needs now < expiry, strictly), and then exactly one.  After a token
\* response with expires_in = 3600 an operation started less than 3540 s after
\* the fetch issues none, one started at or after 3540 s issues exactly one.
C1_TokenRequestIffMiss ==
    [][OpStarts =>
        /\ ops = EmptyBag
        /\ \A o \in BagToSet(ops') :
            /\ o.posts = (IF access_token = NONE \/ now >= token_expires_at
                          THEN 1 ELSE 0)
            /\ (o.pc = "token_wait") = (o.posts = 1)
            /\ FetchedWith3600 =>
                 /\ now < stored.at + 3540 => o.posts = 0 /\ o.pc = "resource_wait"
                 /\ now >= stored.at + 3540 => o.posts = 1 /\ o.pc = "token_wait"
      ]_vars

\* an operation started 3540 s or more after a fetch with expires_in = 3600
\* awaits its token request
C1_Witness ==
    /\ FetchedWith3600
    /\ now >= stored.at + 3540
    /\ ops = One(OpAwaitingToken(base_url))

\* an operation started less than 3540 s (and more than 0 s) after such a
\* fetch awaits its resource request with the cached token
C1_WitnessReuse ==
    /\ FetchedWith3600
    /\ now > stored.at /\ now < stored.at + 3540
    /\ last.outcome = "ok"
    /\ \E o \in InFlight : o.pc = "resource_wait" /\ o.posts = 0

(* ---------------------------------------------------------------------- *)
(* C2                                                                      *)
(* ---------------------------------------------------------------------- *)
\* C2: every resource request that is sent is preceded, within its operation,
\* by a completed _ensure_token, and carries the bearer header of the token
\* cached at that moment, which is not absent and was written from a 2xx token
\* response; a fresh client has no token, and no resource request is sent
\* before a token response was stored.
C2_BearerIsCachedToken ==
    [][\A o \in Added(ops, ops') :
          o.pc = "resource_wait" =>
            /\ o.ensured
            /\ o.request.authorization = <<"Bearer", access_token'>>
            /\ access_token' # NONE
            /\ stored'.from_response
            /\ stored'.token = access_token'
      ]_vars

\* the part of C2 that does hold: the request follows a completed
\* _ensure_token and its header is built from the value cached at the moment
\* of sending, a value written from a 2xx token response
C2_HeaderFromCache ==
    [][\A o \in Added(ops, ops') :
          o.pc = "resource_wait" =>
            /\ o.ensured
            /\ o.request.authorization =
                 <<"Bearer", IF access_token' = NONE THEN "None" ELSE access_token'>>
            /\ stored'.from_response
            /\ stored'.token = access_token'
      ]_vars

\* a resource request in flight whose header reads "Bearer None"
C2_NullTokenSent ==
    \E o \in InFlight :
        o.pc = "resource_wait" /\ o.request.authorization = <<"Bearer", "None">>

(* ---------------------------------------------------------------------- *)
(* C3                                                                      *)
(* ---------------------------------------------------------------------- *)
\* C3: when the token POST resumes with a status outside 2xx, the operation
\* ends by raising the HTTP status error to its caller, no resource request
\* is sent, and the cached token and expiry are what they were; an operation
\* started while no token is cached or the expiry has passed then issues a
\* token request again.
C3_TokenNon2xxFails ==
    [][/\ (TokenResumes /\ last'.phase = "token" /\ NonSuccess(last'.status)) =>
            /\ last'.outcome = "HTTPStatusError"
            /\ BagCardinality(ops') = BagCardinality(ops) - 1
            /\ Added(ops, ops') = {}
            /\ access_token' = access_token
            /\ token_expires_at' = token_expires_at
       /\ (OpStarts /\ last.phase = "token" /\ NonSuccess(last.status)
             /\ (access_token = NONE \/ now >= token_expires_at)) =>
            \A o \in Added(ops, ops') : o.pc = "token_wait" /\ o.posts = 1
      ]_vars

\* a token POST was answered 401, and the next operation awaits a token POST
C3_Witness ==
    /\ last = [phase |-> "token", status |-> 401, outcome |-> "HTTPStatusError"]
    /\ access_token = NONE
    /\ ops = One(OpAwaitingToken(base_url))

(* ---------------------------------------------------------------------- *)
(* C4                                                                      *)
(* ---------------------------------------------------------------------- *)
\* C4: an _ensure_token that fails, for whatever reason (status, transport,
\* a body without access_token or with a non-numeric expires_in), leaves the
\* cached token and the cached expiry exactly as they were; after one that
\* succeeds, both come from the same token response.
C4_FailedFetchLeavesCache ==
    [][/\ (TokenResumes /\ last'.phase = "token" /\ last'.outcome \in Exceptions) =>
            /\ access_token' = access_token
            /\ token_expires_at' = token_expires_at
       /\ (TokenResumes /\ last'.phase = "token" /\ last'.outcome = "continued") =>
            stored'.same /\ stored'.from_response
      ]_vars

(* ---------------------------------------------------------------------- *)
(* C5                                                                      *)
(* ---------------------------------------------------------------------- *)
\* C5: when the resource request resumes with a status outside 2xx or with a
\* transport failure, the operation ends by raising that error to its caller
\* and the cached token and expiry are unchanged; an operation started next,
\* while the token is cached and the time is before the expiry, sends its
\* resource request with that token and no token request.
C5_ResourceFailureKeepsCache ==
    [][/\ (ResourceResumes /\ last'.phase = "resource"
             /\ (last'.status = 0 \/ NonSuccess(last'.status))) =>
            /\ last'.outcome = (IF last'.status = 0 THEN "TransportError"
                                ELSE "HTTPStatusError")
            /\ BagCardinality(ops') = BagCardinality(ops) - 1
            /\ Added(ops, ops') = {}
            /\ access_token' = access_token
            /\ token_expires_at' = token_expires_at
            /\ stored' = stored
       /\ (OpStarts /\ last.phase = "resource" /\ last.outcome \in Exceptions
             /\ access_token # NONE /\ now < token_expires_at) =>
            \A o \in Added(ops, ops') :
                /\ o.pc = "resource_wait" /\ o.posts = 0
                /\ o.request.authorization = <<"Bearer", access_token>>
      ]_vars

\* a resource request was answered 500 and the next operation reuses the token
C5_Witness ==
    /\ last = [phase |-> "resource", status |-> 500, outcome |-> "HTTPStatusError"]
    /\ access_token = "tok-A"
    /\ now < token_expires_at
    /\ ops = One(OpAwaitingResource(OpReusing, base_url, "tok-A"))

(* ---------------------------------------------------------------------- *)
(* C6                                                                      *)
(* ---------------------------------------------------------------------- *)
\* C6: no retries.  An operation issues at most one token request and at most
\* one resource request; when a request of it fails, the operation ends with
\* the exception and no request is sent in that step.
C6_NoRetries ==
    [][/\ \A o \in BagToSet(ops') : o.posts <= 1 /\ o.gets <= 1
       /\ (ops' # ops /\ ~OpStarts /\ last'.outcome \in Exceptions) =>
            /\ BagCardinality(ops') = BagCardinality(ops) - 1
            /\ Added(ops, ops') = {}
      ]_vars

\* an operation that sent its one token request and its one resource request
\* is in flight, after another one failed on its resource request
C6_Witness ==
    /\ last.phase = "resource" /\ last.outcome = "HTTPStatusError"
    /\ \E o \in InFlight : o.posts = 1 /\ o.gets = 1

(* ---------------------------------------------------------------------- *)
(* C7                                                                      *)
(* ---------------------------------------------------------------------- *)
\* the operations in flight that found no usable token in _ensure_token
MissedInFlight ==
    BagCardinality([o \in {x \in InFlight : x.missed} |-> CopiesIn(o, ops)])

\* C7: token refresh is not single-flight (two token requests can be in
\* flight at once: the witness), but the token requests never outnumber the
\* operations that observed the miss: each operation issues one only after
\* observing it.
C7_PostsWithinMisses ==
    /\ \A o \in InFlight :
          /\ o.posts <= (IF o.missed THEN 1 ELSE 0)
          /\ o.pc = "token_wait" => o.missed
    /\ CountAwaiting(ops, "token_wait") <= MissedInFlight

\* two operations passed the validity check before either response was
\* stored: two token requests are in flight
C7_TwoTokenRequests ==
    /\ CopiesIn(OpAwaitingToken(base_url), ops) = 2
    /\ ~stored.from_response

(* ---------------------------------------------------------------------- *)
(* C8                                                                      *)
(* ---------------------------------------------------------------------- *)
\* C8: under every interleaving, every resource request sent carries a bearer
\* token written from a 2xx token response, and at every suspension point the
\* cached token and the cached expiry come from one and the same response.
C8_RacesHarmless ==
    [][/\ stored'.same
       /\ \A o \in Added(ops, ops') :
            o.pc = "resource_wait" =>
              /\ stored'.from_response
              /\ o.request.authorization =
                   <<"Bearer", IF stored'.token = NONE THEN "None" ELSE stored'.token>>
      ]_vars

(* ---------------------------------------------------------------------- *)
(* C9                                                                      *)
(* ---------------------------------------------------------------------- *)
\* C9: after a successful token response the cached token is the response's
\* access_token and the cached expiry is (time of storing) + expires_in - 60,
\* with expires_in = 3600 when the response has no such member.
C9_ExpiryFormula ==
    (stored.from_response /\ stored.same) =>
        /\ access_token = stored.token
        /\ token_expires_at =
             stored.at - 60 + (IF stored.expires_in.kind = "absent" THEN 3600
                               ELSE stored.expires_in.val)

\* a response without expires_in was stored
C9_Witness ==
    /\ stored.from_response /\ stored.same
    /\ stored.expires_in.kind = "absent"
    /\ access_token = "tok-B"
    /\ token_expires_at = stored.at + 3540

(* ---------------------------------------------------------------------- *)
(* C10                                                                     *)
(* ---------------------------------------------------------------------- *)
\* this step is the run of __init__ for the pending call
Constructs == call.pending /\ ~call'.pending

\* the outcome C10 describes for the region string s
RejectsRegion(s) ==
    /\ ctor' = [error |-> "ValueError", names |-> s,
                supported |-> <<"eu-west-1", "us-west-2">>,
                region |-> NONE, base_url |-> NONE]
    /\ ~constructed'
    /\ ops' = EmptyBag

Unsupported(s) == s # NONE /\ s # "eu-west-1" /\ s # "us-west-2"

\* both credentials of the pending call are given or are in the environment
CredentialsResolve ==
    /\ call.id # NONE \/ call.envId # NONE
    /\ call.secret # NONE \/ call.envSecret # NONE

\* C10 as stated: for any string that is not a supported key, given as the
\* region argument or (with no argument) as GS_CC_REGION, construction (with
\* credentials at hand) fails with the configuration error naming it and
\* listing the valid keys; no client results and no network call is made.
C10_AnyStringRejected ==
    [][(Constructs /\ CredentialsResolve) =>
        /\ Unsupported(call.region) => RejectsRegion(call.region)
        /\ (call.region = NONE /\ Unsupported(call.envRegion)) =>
              RejectsRegion(call.envRegion)
      ]_vars

\* C10 amended: an empty region argument counts as no argument.  The region
\* in effect is the argument when it is a non-empty string, else GS_CC_REGION
\* when set (the empty string included), else eu-west-1.  When the region in
\* effect is not a supported key, construction (with credentials at hand)
\* fails with the ValueError naming it and listing the valid keys, no client
\* results and no network call is made; a missing credential raises KeyError
\* before the region is looked at.
C10_EffectiveRegionRejected ==
    [][Constructs =>
        LET given == IF call.region # NONE /\ call.region # "" THEN call.region
                     ELSE IF call.envRegion # NONE THEN call.envRegion
                     ELSE "eu-west-1"
        IN  /\ (CredentialsResolve /\ Unsupported(given)) => RejectsRegion(given)
            /\ ~CredentialsResolve =>
                  ctor'.error = "KeyError" /\ ~constructed' /\ ops' = EmptyBag
      ]_vars

\* construction was refused for GS_CC_REGION = "" (no region argument)
C10_Witness ==
    /\ ctor.error = "ValueError" /\ ctor.names = ""
    /\ ~constructed /\ ~call.pending

(* ---------------------------------------------------------------------- *)
(* C11                                                                     *)
(* ---------------------------------------------------------------------- *)
\* the base URL the documentation binds to a supported region key
DocumentedUrl(r) ==
    IF r = "eu-west-1" THEN "https://api2-eu-west-1.insided.com"
    ELSE "https://api2-us-west-2.insided.com"

Supported(s) == s = "eu-west-1" \/ s = "us-west-2"

\* C11 as stated: the region used is the region argument whenever one is
\* given (any string), else GS_CC_REGION if set, else eu-west-1; a client
\* that results has that region, and for a valid key it results with exactly
\* the documented base URL.
C11_ExplicitArgumentWins ==
    [][(Constructs /\ CredentialsResolve) =>
        LET used == IF call.region # NONE THEN call.region
                    ELSE IF call.envRegion # NONE THEN call.envRegion
                    ELSE "eu-west-1"
        IN  /\ constructed' => region' = used
            /\ Supported(used) =>
                 constructed' /\ region' = used /\ base_url' = DocumentedUrl(used)
      ]_vars

\* C11 amended: the region used is the region argument if it is a non-empty
\* string, else GS_CC_REGION if that variable is set, else eu-west-1.  With
\* credentials at hand a client results exactly when the region used is a
\* valid key, its region is that key and its base URL the documented one.
C11_RegionResolution ==
    [][(Constructs /\ CredentialsResolve) =>
        LET used == IF call.region # NONE /\ call.region # "" THEN call.region
                    ELSE IF call.envRegion # NONE THEN call.envRegion
                    ELSE "eu-west-1"
        IN  /\ constructed' = Supported(used)
            /\ constructed' =>
                 /\ region' = used /\ ctor'.region = used
                 /\ base_url' = DocumentedUrl(used)
                 /\ ctor'.base_url = DocumentedUrl(used)
      ]_vars

\* a us-west-2 client was constructed, bound to the documented URL
C11_Witness ==
    /\ constructed /\ ctor.error = "none" /\ ~call.pending
    /\ region = "us-west-2"
    /\ base_url = "https://api2-us-west-2.insided.com"
    /\ ops = EmptyBag

(* ---------------------------------------------------------------------- *)
(* C12                                                                     *)
(* ---------------------------------------------------------------------- *)
\* C12: once a client exists, no step (no operation start, no successful or
\* failed resumption) changes its base URL or its region; and every request
\* sent, token request or resource request, goes to that base URL, which is
\* the documented one of the client's region.
C12_OneBaseUrl ==
    [][/\ constructed =>
            constructed' /\ base_url' = base_url /\ region' = region
       /\ \A o \in Added(ops, ops') :
            /\ constructed'
            /\ o.request.kind \in {"token", "resource"}
            /\ o.request.base_url = base_url'
            /\ o.request.base_url = DocumentedUrl(region')
      ]_vars

\* on a us-west-2 client, after a failed operation, an operation that got its
\* token from the us-west-2 endpoint awaits its resource request there
C12_Witness ==
    /\ region = "us-west-2"
    /\ last.outcome \in Exceptions
    /\ \E o \in InFlight :
          /\ o.pc = "resource_wait" /\ o.posts = 1
          /\ o.request.base_url = "https://api2-us-west-2.insided.com"

(* ---------------------------------------------------------------------- *)
(* C13                                                                     *)
(* ---------------------------------------------------------------------- *)
\* the closed set of content types
InClosedSet(ct) ==
    ct \in {"article", "conversation", "question", "idea", "productUpdate"}

\* C13: a call of get_topic_detail, get_topic_replies, get_poll_results or
\* get_reply with a content type outside the closed set raises the
\* configuration error naming that value and awaits nothing: no token request
\* and no resource request is sent, and the cached token and expiry (and
\* their history) are what they were, with or without a token cached.
C13_UnknownTypeNoNetwork ==
    [][\A c \in ClientCalls :
          (c.method \in {"get_topic_detail", "get_topic_replies",
                         "get_poll_results", "get_reply"}
             /\ ~InClosedSet(c.content_type) /\ ClientCall(c)) =>
            /\ reply' = Raised("ValueError", c.content_type)
            /\ tool' = NoTool
            /\ ops = EmptyBag /\ ops' = EmptyBag
            /\ access_token' = access_token
            /\ token_expires_at' = token_expires_at
            /\ stored' = stored
      ]_vars

\* a call with content type "invalid" raised while a token was cached
C13_Witness ==
    /\ reply = Raised("ValueError", "invalid")
    /\ access_token = "tok-A" /\ now < token_expires_at
    /\ tool = NoTool /\ ops = EmptyBag

(* ---------------------------------------------------------------------- *)
(* C14                                                                     *)
(* ---------------------------------------------------------------------- *)
\* the documented path segment of a content type of the closed set
DocumentedSegment(ct) ==
    IF ct = "article" THEN "articles"
    ELSE IF ct = "conversation" THEN "conversations"
    ELSE IF ct = "question" THEN "questions"
    ELSE IF ct = "idea" THEN "ideas"
    ELSE "productUpdates"

\* the ids the calls are made with, as they read in a path
IdText(n) ==
    CASE n = 3 -> "3" [] n = 7 -> "7" [] n = 42 -> "42" [] n = 120 -> "120"

\* the documented path of a call with a content type
DocumentedPath(c) ==
    LET item == "/v2/" \o DocumentedSegment(c.content_type) \o "/" \o IdText(c.id) IN
    CASE c.method = "get_topic_detail" -> item
      [] c.method = "get_topic_replies" -> item \o "/replies"
      [] c.method = "get_poll_results" -> item \o "/poll"
      [] c.method = "get_reply" -> item \o "/replies/" \o IdText(c.reply_id)

\* C14: a call of one of the four operations with a content type of the
\* closed set requests the documented path: the caller awaits a request for
\* that path, and every resource request sent for it, at once or after the
\* token arrived, is addressed to it.
C14_DocumentedPaths ==
    [][/\ \A c \in ClientCalls :
            (c.method \in {"get_topic_detail", "get_topic_replies",
                           "get_poll_results", "get_reply"}
               /\ InClosedSet(c.content_type) /\ ClientCall(c)) =>
              /\ tool'.pc = "awaiting"
              /\ tool'.method = c.method
              /\ tool'.path = DocumentedPath(c)
              /\ BagCardinality(ops') = 1
       /\ \A o \in Added(ops, ops') :
            o.pc = "resource_wait" =>
                tool'.pc = "awaiting" /\ o.request.path = tool'.path
      ]_vars

\* the resource request of get_reply("productUpdate", 42, 120) is in flight
C14_Witness ==
    /\ tool.method = "get_reply"
    /\ \E o \in InFlight :
          /\ o.pc = "resource_wait"
          /\ o.request.path = "/v2/productUpdates/42/replies/120"

(* ---------------------------------------------------------------------- *)
(* C15                                                                     *)
(* ---------------------------------------------------------------------- *)
\* C15: the list_topics tool called with content_type set to a string
\* outside the closed set is rejected before any network call: such a call
\* never awaits a client operation, and no request of it is ever in flight.
C15_ListTopicsRejectsUnknownType ==
    (/\ tool.name = "list_topics"
     /\ Truth(tool.args.content_type)
     /\ ~InClosedSet(tool.args.content_type.s)) =>
        tool.pc # "awaiting" /\ ops = EmptyBag

\* list_topics(content_type="event") awaits GET /v2/topics
C15_UnknownTypeListsAllTopics ==
    /\ tool.name = "list_topics" /\ tool.pc = "awaiting"
    /\ tool.args.content_type = PyStr("event")
    /\ tool.method = "list_topics" /\ tool.path = "/v2/topics"
    /\ \E o \in InFlight : o.pc = "resource_wait" /\ o.request.path = "/v2/topics"

(* ---------------------------------------------------------------------- *)
(* C16                                                                     *)
(* ---------------------------------------------------------------------- *)
\* the tools that build query parameters and whose client operation exists
ParamTools ==
    {"search_community", "list_topics", "list_ideas", "list_tags",
     "list_topics_by_category"}

\* the filter arguments of a tool, each with the key it is sent under
ArgKeys(name) ==
    CASE name = "search_community" ->
            {<<"query", "q">>, <<"category_ids", "categoryIds">>,
             <<"content_types", "contentTypes">>, <<"tags", "tags">>,
             <<"moderator_tags", "moderatorTags">>, <<"has_answer", "hasAnswer">>,
             <<"page", "page">>}
      [] name = "list_topics" ->
            {<<"category_ids", "categoryIds">>, <<"tags", "tags">>,
             <<"moderator_tags", "moderatorTags">>,
             <<"content_types", "contentTypes">>, <<"sort", "sort">>,
             <<"page", "page">>, <<"page_size", "pageSize">>}
      [] name = "list_topics_by_category" ->
            {<<"tags", "tags">>, <<"moderator_tags", "moderatorTags">>,
             <<"sort", "sort">>, <<"page", "page">>, <<"page_size", "pageSize">>}
      [] OTHER -> {<<"page", "page">>, <<"page_size", "pageSize">>}

\* the date-range arguments of a tool: lower bound, upper bound, key
RangeKeys(name) ==
    IF name \in {"list_topics", "list_topics_by_category"}
    THEN {<<"created_after", "created_before", "createdAt">>,
          <<"active_after", "active_before", "lastActivity">>}
    ELSE {}

\* a tool with query parameters awaits its client operation
HandsParams == tool.pc = "awaiting" /\ tool.step = "call" /\ tool.name \in ParamTools

\* C16 as stated: the mapping handed to the client has exactly the keys
\* whose arguments were supplied (are not None; for a date range, one of its
\* two bounds), and no null value; search_tags hands its mapping over too.
C16_ExactlySuppliedKeys ==
    /\ reply # Raised("AttributeError", "search_tags")
    /\ HandsParams =>
        /\ DOMAIN tool.params =
             {p[2] : p \in {q \in ArgKeys(tool.name) : ~IsNone(tool.args[q[1]])}}
             \cup {p[3] : p \in {q \in RangeKeys(tool.name) :
                                    ~IsNone(tool.args[q[1]]) \/ ~IsNone(tool.args[q[2]])}}
        /\ \A k \in DOMAIN tool.params : ~IsNone(tool.params[k])

\* list_topics routed by a non-empty content_type
RoutedByType == tool.name = "list_topics" /\ tool.args.content_type.s # ""

\* What does hold of the five tools of ParamTools: the mapping handed to the client never has a key whose
\* argument was omitted and never a null value.  It has the key of every
\* filter argument that is not None, with the argument as its value, except
\* that list_topics with a non-empty content_type hands over page and
\* pageSize only, and that createdAt / lastActivity are present exactly when
\* one of their two bounds is a non-empty string.
C16_SuppliedKeysOnly ==
    HandsParams =>
        LET plain == IF RoutedByType
                     THEN {<<"page", "page">>, <<"page_size", "pageSize">>}
                     ELSE ArgKeys(tool.name)
            ranges == IF RoutedByType THEN {} ELSE RangeKeys(tool.name)
        IN  /\ DOMAIN tool.params =
                 {p[2] : p \in {q \in plain : ~IsNone(tool.args[q[1]])}}
                 \cup {p[3] : p \in {q \in ranges :
                          \/ tool.args[q[1]].t = "str" /\ tool.args[q[1]].s # ""
                          \/ tool.args[q[2]].t = "str" /\ tool.args[q[2]].s # ""}}
            /\ \A k \in DOMAIN tool.params : tool.params[k].t # "none"
            /\ \A p \in plain :
                  p[2] \in DOMAIN tool.params => tool.params[p[2]] = tool.args[p[1]]

\* list_topics with only tags set hands over tags and nothing else
C16_TagsOnly ==
    /\ tool.name = "list_topics" /\ tool.pc = "awaiting"
    /\ tool.args.tags = PyStr("release")
    /\ Supplied(tool.args, DOMAIN tool.args) = 1
    /\ tool.method = "list_topics"
    /\ tool.params = [tags |-> PyStr("release")]
    /\ \E o \in InFlight : o.pc = "resource_wait"

(* ---------------------------------------------------------------------- *)
(* C17                                                                     *)
(* ---------------------------------------------------------------------- *)
\* a dict without its None and its empty-string values
Stripped(d) ==
    [k \in {j \in DOMAIN d : ~IsNone(d[j]) /\ d[j] # PyStr("")} |-> d[k]]

\* C17: no query parameter is handed over with an empty-string value,
\* neither at the top level nor inside the serialized createdAt /
\* lastActivity object, whatever the arguments of the tool.
C17_NoEmptyStringTransmitted ==
    HandsParams =>
        /\ \A k \in DOMAIN tool.params : tool.params[k] # PyStr("")
        /\ \A r \in RangeKeys(tool.name) :
              r[3] \in DOMAIN tool.params =>
                 tool.params[r[3]] =
                    PyStr(Dumps(Stripped([from |-> tool.args[r[1]],
                                          to |-> tool.args[r[2]]])))

\* tags="" is handed over as tags: ""
C17_EmptyTagsHandedOver ==
    /\ HandsParams /\ "tags" \in DOMAIN tool.params
    /\ tool.params["tags"] = PyStr("")
    /\ \E o \in InFlight : o.pc = "resource_wait"

\* created_after="" with created_before set serializes the empty bound
C17_EmptyBoundSerialized ==
    /\ HandsParams /\ "createdAt" \in DOMAIN tool.params
    /\ tool.args.created_after = PyStr("")
    /\ tool.params["createdAt"] = PyStr("{\"from\": \"\", \"to\": \"2024-12-31\"}")

(* ---------------------------------------------------------------------- *)
(* C18                                                                     *)
(* ---------------------------------------------------------------------- *)
\* the range parameter key of the awaited call is absent when d is empty and
\* is the JSON text of d otherwise
RangeSentAs(key, d) ==
    IF DOMAIN d = {}
    THEN key \notin DOMAIN tool.params
    ELSE key \in DOMAIN tool.params /\ tool.params[key] = PyStr(Dumps(d))

\* list_topics on the unified endpoint, or list_topics_by_category, awaits
\* its client operation
HandsRanges == HandsParams /\ RangeKeys(tool.name) # {} /\ ~RoutedByType

\* C18: each after/before pair is sent as one parameter holding "from" only
\* when the lower bound is set and "to" only when the upper bound is set,
\* and is absent when neither is set; a bound is set when it is a non-empty
\* string, the test by which the code decides that neither is.
C18_RangeHoldsSetBounds ==
    HandsRanges =>
        \A r \in RangeKeys(tool.name) :
            RangeSentAs(r[3], Stripped([from |-> tool.args[r[1]],
                                        to |-> tool.args[r[2]]]))

\* the same with a bound counted as set when it is not None: also violated
C18_RangeHoldsGivenBounds ==
    HandsRanges =>
        \A r \in RangeKeys(tool.name) :
            RangeSentAs(r[3], Clean([from |-> tool.args[r[1]],
                                     to |-> tool.args[r[2]]]))

\* what holds: the collapsing is as described whenever no bound is the
\* empty string
C18_RangeOfDates ==
    (/\ HandsRanges
     /\ \A r \in RangeKeys(tool.name) :
           tool.args[r[1]] # PyStr("") /\ tool.args[r[2]] # PyStr("")) =>
        \A r \in RangeKeys(tool.name) :
            RangeSentAs(r[3], Clean([from |-> tool.args[r[1]],
                                     to |-> tool.args[r[2]]]))

\* only a lower bound: {"from": "2024-01-01"}
C18_LowerBoundOnly ==
    /\ HandsRanges /\ tool.name = "list_topics_by_category"
    /\ tool.args.created_after = PyStr("2024-01-01") /\ IsNone(tool.args.created_before)
    /\ tool.params = [createdAt |-> PyStr("{\"from\": \"2024-01-01\"}")]

(* ---------------------------------------------------------------------- *)
(* C19                                                                     *)
(* ---------------------------------------------------------------------- *)
\* the three requests of get_topic for topic id of content type ct, in order
TopicRequests(ct, id) ==
    LET item == "/v2/" \o DocumentedSegment(ct) \o "/" \o IdText(id) IN
    << [method |-> "get_topic_by_id", path |-> "/v2/topics"],
       [method |-> "get_topic_detail", path |-> item],
       [method |-> "get_topic_replies", path |-> item \o "/replies"] >>

\* the response r carries a decoded body
Decoded(r) == ~r.transport /\ r.status = 200 /\ r.json

\* the result list of a decoded body; missing counts as empty
ResultList(body) == IF body.has_result THEN body.result ELSE <<>>

C19_NotFound ==
    /\ reply = Returned(NotFoundValue(42))
    /\ tool = NoTool

(* ---------------------------------------------------------------------- *)
(* C20                                                                     *)
(* ---------------------------------------------------------------------- *)
\* upstream answers 404
NotFound404 == [transport |-> FALSE, status |-> 404, json |-> FALSE, body |-> NoJson]

\* C20: when the replies request is answered 404, a direct caller of
\* client.get_topic_replies gets the HTTPStatusError raised, while get_topic
\* returns the topic detail with the empty-replies shape attached.
C20_RepliesNotFound ==
    [][\A o \in InFlight :
         (/\ tool.pc = "awaiting" /\ tool.method = "get_topic_replies"
          /\ o.pc = "resource_wait"
          /\ ResponseArrives(o, NotFound404)) =>
            /\ tool.name = "client" =>
                  /\ reply' = Raised("HTTPStatusError", NONE)
                  /\ tool' = NoTool
            /\ tool.name = "get_topic" =>
                  /\ reply' = Returned(TopicValue(tool.topic, EmptyReplies))
                  /\ reply'.value.replies.result = <<>>
                  /\ reply'.value.replies.metadata.totalCount = 0
                  /\ tool' = NoTool
      ]_vars

\* get_topic returned the detail with the empty-replies shape, which no
\* upstream body of the model equals
C20_Witness ==
    /\ reply = Returned(TopicValue(Json("b2", FALSE, <<>>), EmptyReplies))
    /\ EmptyReplies \notin UpstreamBodies
    /\ tool = NoTool

(* ---------------------------------------------------------------------- *)
(* C21                                                                     *)
(* ---------------------------------------------------------------------- *)
\* the response r is an upstream failure: no response, or a non-2xx status
Failure(r) == r.transport \/ ~Is2xx(r.status)

\* get_topic awaits a resource request that resumes with r
TopicRequestResumes(r) ==
    /\ tool.name = "get_topic" /\ tool.pc = "awaiting"
    /\ \E o \in InFlight : o.pc = "resource_wait" /\ ResponseArrives(o, r)

\* C21: a 404 on the replies request is the only upstream failure get_topic
\* converts to a result.  Any other failure of the replies request (another
\* non-2xx status, a transport failure) and any failure of the lookup or the
\* detail request ends get_topic with that failure.
C21_OnlyReplies404Converted ==
    [][\A r \in UpstreamResponses :
         (/\ Failure(r)
          /\ ~(tool.step = "replies" /\ ~r.transport /\ r.status = 404)
          /\ TopicRequestResumes(r)) =>
             /\ reply' = Raised(ResourceOutcome(r), NONE)
             /\ tool' = NoTool
      ]_vars

\* what holds: a transport failure of any of the three requests, and any
\* failure of the lookup or the detail request, ends get_topic with it
C21_OtherFailuresPropagate ==
    [][\A r \in UpstreamResponses :
         (/\ Failure(r)
          /\ r.transport \/ tool.step # "replies"
          /\ TopicRequestResumes(r)) =>
             /\ reply' = Raised(ResourceOutcome(r), NONE)
             /\ tool' = NoTool
      ]_vars

(* ---------------------------------------------------------------------- *)
(* C22                                                                     *)
(* ---------------------------------------------------------------------- *)
\* C22: search_tags called against a client that can be constructed ensures
\* the token and sends one GET with the supplied q / page parameters: the
\* tool awaits a client operation that was handed exactly those parameters,
\* with that operation's request in flight, and no exception has ended it.
C22_SearchTagsEndToEnd ==
    [][\A a \in SearchTagsArgs :
         (FirstCall /\ search_tags(a) /\ constructed') =>
             /\ reply' = NoReply
             /\ tool'.name = "search_tags" /\ tool'.pc = "awaiting"
             /\ tool'.params = Clean([q |-> a.query, page |-> a.page])
             /\ BagCardinality(ops') = 1
      ]_vars

(* ---------------------------------------------------------------------- *)
(* C23                                                                     *)
(* ---------------------------------------------------------------------- *)
\* the community URL a deployment configures: none, without and with a
\* trailing slash
CommunityUrls == {NONE, "https://community.example.com", "https://community.example.com/"}

\* a url field as it is to be returned under the community URL u: a relative
\* one prefixed with u, one slash at the join
ResolvedUrl(u, url) ==
    IF u # NONE /\ url = "/topic/7" THEN "https://community.example.com/topic/7"
    ELSE url

\* a body with the url fields of its results resolved
ResolvedBody(u, body) ==
    [body EXCEPT !.result =
        [i \in DOMAIN body.result |->
            IF "url" \in DOMAIN body.result[i]
            THEN [body.result[i] EXCEPT !.url = ResolvedUrl(u, @)]
            ELSE body.result[i]]]

\* C23: whatever community URL is configured, search_community and get_topic
\* return the upstream bodies (of get_topic: the detail and the replies) with
\* every relative url prefixed with it and every absolute url unchanged; with
\* none configured they return the urls unchanged.
C23_RelativeUrlsResolved ==
    [][\A u \in CommunityUrls, r \in UpstreamResponses :
         (/\ Decoded(r)
          /\ tool.pc = "awaiting"
          /\ \E o \in InFlight : o.pc = "resource_wait" /\ ResponseArrives(o, r)) =>
             /\ tool.name = "search_community" =>
                   reply' = Returned(BodyValue(ResolvedBody(u, r.body)))
             /\ (tool.name = "get_topic" /\ tool.step = "replies") =>
                   reply' = Returned(TopicValue(ResolvedBody(u, tool.topic),
                                                ResolvedBody(u, r.body)))
      ]_vars

\* what the code does: the bodies are returned with their urls as upstream
\* sent them
C23_UrlsUnchanged ==
    [][\A r \in UpstreamResponses :
         (/\ Decoded(r)
          /\ tool.pc = "awaiting"
          /\ \E o \in InFlight : o.pc = "resource_wait" /\ ResponseArrives(o, r)) =>
             /\ tool.name = "search_community" => reply' = Returned(BodyValue(r.body))
             /\ (tool.name = "get_topic" /\ tool.step = "replies") =>
                   reply' = Returned(TopicValue(tool.topic, r.body))
      ]_vars

(* ---------------------------------------------------------------------- *)
(* C24                                                                     *)
(* ---------------------------------------------------------------------- *)
\* C24: whichever client operation is awaited, a 2xx resource response with
\* a JSON body makes it return that body as decoded, nothing changed, and a
\* non-2xx response makes it return nothing and raise the HTTP status error
\* (httpx.HTTPStatusError, which carries the response and its status).
C24_BodyVerbatimOrStatusError ==
    [][\A r \in UpstreamResponses :
         (/\ tool.name = "client" /\ tool.pc = "awaiting"
          /\ ~r.transport
          /\ \E o \in InFlight : o.pc = "resource_wait" /\ ResponseArrives(o, r)) =>
             /\ (Is2xx(r.status) /\ r.json) =>
                   /\ reply' = Returned(BodyValue(r.body))
                   /\ reply'.value.body = r.body
             /\ ~Is2xx(r.status) =>
                   /\ reply' = Raised("HTTPStatusError", NONE)
                   /\ reply'.value = NoValue
             /\ tool' = NoTool
      ]_vars

\* a direct call of a client operation returned a body with a result in it
C24_Witness ==
    /\ reply = Returned(BodyValue(Json("b2", TRUE,
                  <<[contentType |-> "question", url |-> "/topic/7"]>>)))
    /\ tool = NoTool /\ ops = EmptyBag
    /\ constructed

(* ---------------------------------------------------------------------- *)
(* C25                                                                     *)
(* ---------------------------------------------------------------------- *)
\* the client list operation and the endpoint of a content type of the
\* closed set
ListOperation(ct) ==
    IF ct = "article" THEN [method |-> "list_articles", path |-> "/v2/articles"]
    ELSE IF ct = "conversation"
    THEN [method |-> "list_conversations", path |-> "/v2/conversations"]
    ELSE IF ct = "question" THEN [method |-> "list_questions", path |-> "/v2/questions"]
    ELSE IF ct = "idea" THEN [method |-> "list_ideas", path |-> "/v2/ideas"]
    ELSE [method |-> "list_product_updates", path |-> "/v2/productUpdates"]

\* the keys of params are those of the pairs of keys whose argument is not
\* None, each with its argument as value
HoldsSupplied(params, a, keys) ==
    /\ \A p \in keys : p[2] \in DOMAIN params <=> ~IsNone(a[p[1]])
    /\ \A p \in keys : p[2] \in DOMAIN params => params[p[2]] = a[p[1]]

\* C25: list_topics with content_type one of the five types calls exactly
\* one client operation, the list operation of that type's endpoint, with
\* the supplied page / pageSize and nothing else; with content_type unset it
\* calls exactly one, the unified topics endpoint, with every supplied
\* filter.  Its one answer ends the tool.
C25_ListTopicsRouting ==
    [][/\ (tool'.name = "list_topics" /\ tool'.pc = "awaiting") =>
            LET a == tool'.args IN
            /\ Len(tool'.issued) = 1
            /\ tool'.issued[1] = [method |-> tool'.method, path |-> tool'.path]
            /\ (a.content_type.t = "str" /\ InClosedSet(a.content_type.s)) =>
                  /\ tool'.method = ListOperation(a.content_type.s).method
                  /\ tool'.path = ListOperation(a.content_type.s).path
                  /\ DOMAIN tool'.params \subseteq {"page", "pageSize"}
                  /\ HoldsSupplied(tool'.params, a,
                                   {<<"page", "page">>, <<"page_size", "pageSize">>})
            /\ IsNone(a.content_type) =>
                  /\ tool'.method = "list_topics"
                  /\ tool'.path = "/v2/topics"
                  /\ HoldsSupplied(tool'.params, a, ArgKeys("list_topics"))
                  /\ \A r \in RangeKeys("list_topics") :
                        (Truth(a[r[1]]) \/ Truth(a[r[2]])) => r[3] \in DOMAIN tool'.params
       /\ (tool.name = "list_topics" /\ tool.pc = "awaiting" /\ tool' # tool) =>
            tool' = NoTool
      ]_vars

\* list_topics(content_type="article", tags="release") awaits list_articles
\* with empty parameters
C25_Witness ==
    /\ tool.name = "list_topics" /\ tool.pc = "awaiting"
    /\ tool.args.content_type = PyStr("article")
    /\ tool.args.tags = PyStr("release")
    /\ tool.method = "list_articles"
    /\ tool.params = NoParams
    /\ \E o \in InFlight : o.pc = "resource_wait" /\ o.request.path = "/v2/articles"

(* ---------------------------------------------------------------------- *)
(* C26                                                                     *)
(* ---------------------------------------------------------------------- *)
\* this step is a tool call running up to its first await or its exception
ToolEntered == tool.pc = "idle" /\ now' = now

\* C26: once the module's client exists, a tool call constructs nothing: it
\* uses that client, whatever the environment has become, with the token
\* cache as the calls before left it, and sends its request with the cached
\* token when that is still usable.  While no client exists (none was
\* attempted yet, or the attempts failed), a tool call runs the constructor
\* on the environment; a failure is raised and stores no client.
C26_OneClientPerProcess ==
    [][ToolEntered =>
         /\ constructed =>
               /\ constructed'
               /\ ctor' = ctor /\ region' = region /\ base_url' = base_url
               /\ access_token' = access_token
               /\ token_expires_at' = token_expires_at
               /\ (tool'.pc = "awaiting"
                     /\ TokenUsable(access_token, token_expires_at, now)) =>
                     \A o \in BagToSet(ops') :
                        /\ o.pc = "resource_wait" /\ o.posts = 0
                        /\ o.request.base_url = base_url
                        /\ o.request.authorization = BearerHeader(access_token)
         /\ ~constructed =>
               /\ \E e \in Envs :
                     ctor' = Construction(NONE, NONE, NONE, e.id, e.secret, e.region)
               /\ constructed' = (ctor'.error = "none")
               /\ ctor'.error # "none" =>
                     /\ reply' = Raised(ctor'.error, ctor'.names)
                     /\ tool' = NoTool /\ ops' = EmptyBag
               /\ ctor'.error = "none" =>
                     /\ region' = ctor'.region /\ base_url' = ctor'.base_url
                     /\ access_token' = NONE /\ token_expires_at' = 0
      ]_vars

\* a tool call sent its first request with the token an earlier tool call
\* fetched, without a token request of its own
C26_Witness ==
    /\ tool.pc = "awaiting" /\ Len(tool.issued) = 1
    /\ access_token = "tok-A" /\ now > StartTime
    /\ \E o \in InFlight :
          /\ o.pc = "resource_wait" /\ o.posts = 0 /\ ~o.missed
          /\ o.request.authorization = BearerHeader("tok-A")

(* ---------------------------------------------------------------------- *)
(* C27                                                                     *)
(* ---------------------------------------------------------------------- *)
\* the token response r is stored and declares expires_in of 60 s or less
DeclaresShort(r) ==
    /\ ~r.transport /\ Is2xx(r.status) /\ r.body.json
    /\ r.body.access_token.present
    /\ r.body.expires_in.kind = "number" /\ r.body.expires_in.val <= 60

\* the cache holds the token and the expiry of such a response
ShortLived ==
    /\ stored.from_response /\ stored.same
    /\ stored.expires_in.kind = "number" /\ stored.expires_in.val <= 60

\* C27: when a token response declares expires_in of 60 s or less, the
\* expiry stored is not later than the time of the fetch and the token is
\* not usable, then or later; the operation that fetched it still sends its
\* resource request with the new token, and an operation that starts while
\* the cache holds it sends a token request.
C27_ShortTokenNeverReused ==
    [][/\ ShortLived' =>
             /\ token_expires_at' <= stored'.at
             /\ stored'.at <= now'
             /\ ~TokenUsable(access_token', token_expires_at', now')
       /\ \A o \in InFlight, r \in TokenResponses :
             (DeclaresShort(r) /\ TokenResponse(o, r)) =>
                 /\ ShortLived'
                 /\ \E n \in Added(ops, ops') :
                       /\ n.pc = "resource_wait" /\ n.gets = 1
                       /\ n.request.authorization = BearerHeader(r.body.access_token.val)
       /\ (ShortLived /\ OpStarts) =>
             \A n \in Added(ops, ops') : n.pc = "token_wait" /\ n.posts = 1
      ]_vars

\* an operation awaits its own token request although a token fetched
\* earlier, declared to live 60 s, is in the cache
C27_Witness ==
    /\ ShortLived /\ stored.expires_in.val = 60
    /\ access_token = "tok-A" /\ token_expires_at = stored.at
    /\ \E o \in InFlight : o.pc = "token_wait"

====
